---- MODULE Spec2Model ----
(***************************************************************************)
(* Model of src/app.py: the FastAPI service that stages an uploaded PDF,   *)
(* runs extraction, grouping and index building, stores the artifacts in   *)
(* a directory per document identifier and serves /results, /query and     *)
(* /documents from that directory tree.                                    *)
(*                                                                         *)
(* Scheduling.  Every handler is an `async def` run by one event loop      *)
(* (uvicorn.run(app) without workers, app.py:333).  The only await of      *)
(* process_pdf is `await file.read()` (app.py:144); everything after it,   *)
(* and the whole of get_results, query_document and list_documents, runs   *)
(* without giving the loop back.  The variable `loop` holds the request    *)
(* whose synchronous block is running (0 when the loop is free), and       *)
(* `resp` the response a handler has returned until the server sent it.    *)
(*                                                                         *)
(* Strings that the code takes apart (file names, identifiers) are         *)
(* sequences of one-character strings.                                     *)
(***************************************************************************)
EXTENDS Integers, Sequences, FiniteSets, TLC

\* ---------------------------------------------------------------- bounds
MaxRuns == 2
MaxSubDocs == 1
MaxMatches == 6

Runs == 1..MaxRuns

\* ------------------------------------------------------- program constants
\* result['matched_elements'][:5]
TopN == 5

\* ------------------------------------------------------------------ inputs
\* Uploaded file names (file.filename).
Filenames ==
    { <<"a", ".", "p", "d", "f">>,
      <<"a", ".", "P", "D", "F">>,
      <<"a", ".", "t", "x", "t">>,
      <<"a", "p", "d", "f">> }

\* Values of int(datetime.utcnow().timestamp()): a wall clock read, which the
\* code takes as it comes (no monotonicity is relied upon).
Timestamps == {9, 10}

\* The format query parameter of /results.
Formats == {"enhanced", "index", "full", "xml"}

\* Raw document records the extraction pipeline returns.
Documents == { [total_pages |-> 3, processing_stats |-> "stats"] }

\* ----------------------------------------------------------- string helpers
LowerChar(c) ==
    IF c = "P" THEN "p"
    ELSE IF c = "D" THEN "d"
    ELSE IF c = "F" THEN "f"
    ELSE IF c = "A" THEN "a"
    ELSE IF c = "B" THEN "b"
    ELSE c

\* str.lower()
Lower(s) == [i \in 1..Len(s) |-> LowerChar(s[i])]

\* str.endswith(suffix)
EndsWith(s, suffix) ==
    /\ Len(s) >= Len(suffix)
    /\ SubSeq(s, Len(s) - Len(suffix) + 1, Len(s)) = suffix

DotPdf == <<".", "p", "d", "f">>

\* Mutant: the dot of the suffix is forgotten, endswith('pdf').
IsPdfName_NoDot(fn) == EndsWith(Lower(fn), <<"p", "d", "f">>)

\* file.filename.lower().endswith('.pdf')
IsPdfName(fn) == EndsWith(Lower(fn), DotPdf)

\* str.rfind(c): the last position of c in s, 0 when there is none.
RFind(s, c) ==
    LET hits == {i \in 1..Len(s) : s[i] = c}
    IN IF hits = {} THEN 0 ELSE CHOOSE i \in hits : \A j \in hits : j <= i

\* Path(p).name: what follows the last "/".
PathName(p) == SubSeq(p, RFind(p, "/") + 1, Len(p))

\* Path(p).stem: the name without its last suffix; a leading or a trailing
\* dot starts no suffix.
Stem(p) ==
    LET name == PathName(p)
        i == RFind(name, ".")
    IN IF 1 < i /\ i < Len(name) THEN SubSeq(name, 1, i - 1) ELSE name

DigitChar(d) == <<"0", "1", "2", "3", "4", "5", "6", "7", "8", "9">>[d + 1]

RECURSIVE Digits(_)
\* str(n) for a natural number n.
Digits(n) ==
    IF n < 10 THEN <<DigitChar(n)>>
    ELSE Digits(n \div 10) \o <<DigitChar(n % 10)>>

\* Mutant: the stem and the timestamp are joined without the underscore.
DocumentId_NoSeparator(fn, ts) == Stem(fn) \o Digits(ts)

\* f"{Path(file.filename).stem}_{int(datetime.utcnow().timestamp())}"
DocumentId(fn, ts) == Stem(fn) \o <<"_">> \o Digits(ts)

\* Identifiers a client can ask for: every identifier /process can generate.
Ids == {DocumentId(fn, ts) : fn \in {f \in Filenames : IsPdfName(f)}, ts \in Timestamps}

\* ------------------------------------------------------------ JSON artifacts
\* json.dump(obj, f, indent=2): the text of the file, one chunk holding the
\* serialised object.
json_dump(obj) == <<obj>>

\* Whether json.load(f) parses the text: the empty file is no JSON.
json_readable(text) == Len(text) = 1

\* json.load(f) of a readable text.
json_load(text) == text[1]

\* What open(path, 'w') leaves when the dump after it raises: the file is
\* truncated and the text never arrives.
Truncated == <<>>

\* -------------------------------------------------------------- collaborators
\* Sub-document groupings 1..n of an enhanced record.
Groupings(n) == [i \in 1..n |-> i]

\* grouper.group_document(document): the raw record, with or without the
\* sub_documents key.
EnhancedOf(document) ==
    {document} \cup
    { [ total_pages |-> document.total_pages,
        processing_stats |-> document.processing_stats,
        sub_documents |-> Groupings(n) ] : n \in 0..MaxSubDocs }

\* generate_hierarchical_index(enhanced_doc): a tree derived from the record.
generate_hierarchical_index(enhanced_doc) == [root |-> enhanced_doc]

\* enhanced_doc.get('sub_documents', [])
GetSubDocuments(data) ==
    IF "sub_documents" \in DOMAIN data THEN data.sub_documents ELSE <<>>

\* data.get('total_pages', 0)
GetTotalPages(data) ==
    IF "total_pages" \in DOMAIN data THEN data.total_pages ELSE 0

\* ---------------------------------------------------------------------- state
VARIABLES
    dirs,        \* identifiers whose directory OUTPUT_DIR/<id> exists
    files,       \* <<id, kind>> -> text of OUTPUT_DIR/<id>/<id>_<kind>.json
    tmpfiles,    \* runs whose NamedTemporaryFile(delete=False) still exists
    job,         \* per /process request: position and local variables
    loop,        \* the request running its synchronous block, 0 if none
    vlm_config,  \* global vlm_config (app.py:51)
    pipeline,    \* global pipeline (app.py:52): 0 is None, k is the k-th
                 \* DocumentPipeline instance constructed
    resp,        \* the response a handler returned, until the server has sent it
    writer       \* <<id, kind>> -> the run that opened the file for writing last

vars == <<dirs, files, tmpfiles, job, loop, vlm_config, pipeline, resp, writer>>

NoId == <<>>
NoDoc == [none |-> TRUE]
NoResponse == [op |-> "none"]

\* A /process request that has not arrived; the locals are those of
\* process_pdf.
NewJob ==
    [ pc |-> "Idle",
      filename |-> <<>>,
      ts |-> 0,
      document_id |-> NoId,
      document |-> NoDoc,
      enhanced_doc |-> NoDoc,
      index |-> NoDoc,
      pipeline_instance |-> 0,
      calls |-> <<>> ]

\* (calls is not a local: it records the collaborator calls the handler has
\* made so far, in order.)

\* A request whose handler has raised: its locals are gone.
DeadJob(pc) == [NewJob EXCEPT !.pc = pc]

Init ==
    /\ dirs = {}
    /\ files = [p \in {} |-> <<>>]
    /\ tmpfiles = {}
    /\ job = [r \in Runs |-> NewJob]
    /\ loop = 0
    /\ vlm_config = "None"
    /\ pipeline = 0
    /\ resp = NoResponse
    /\ writer = [p \in {} |-> 0]

\* ---------------------------------------------------------------- the store
Path(id, kind) == <<id, kind>>

\* pathlib.Path.exists() of an artifact file
FileExists(id, kind) == Path(id, kind) \in DOMAIN files

\* open(path, 'w') and what is written before the file is closed
WriteFile(f, id, kind, text) ==
    [p \in DOMAIN f \cup {Path(id, kind)} |->
        IF p = Path(id, kind) THEN text ELSE f[p]]

\* ------------------------------------------------------------------ /process
\* The event loop can start a handler, or resume one after its await: no
\* handler is in its synchronous block and no response is waiting to be sent.
LoopFree == loop = 0 /\ resp = NoResponse

\* Requests are numbered in the order they arrive.
Arrives(r) == job[r].pc = "Idle" /\ \A q \in Runs : q < r => job[q].pc # "Idle"

Running(r) == loop = r

\* Leave the try block through an exception (caught at app.py:197).
Raise(r) == [job EXCEPT ![r].pc = "Except"]

\* app.py:135-139: a file name that is no PDF name is answered 400 before
\* anything is created.
RejectUpload(r, fn) ==
    /\ LoopFree
    /\ Arrives(r)
    /\ ~IsPdfName(fn)
    /\ job' = [job EXCEPT ![r] = DeadJob("Rejected")]
    /\ resp' = [op |-> "process", run |-> r, status |-> 400, filename |-> fn]
    /\ UNCHANGED <<dirs, files, tmpfiles, loop, vlm_config, pipeline, writer>>

\* app.py:135-144: the name is accepted, the temporary file is created and
\* the handler awaits the upload's bytes.
Receive(r, fn) ==
    /\ LoopFree
    /\ Arrives(r)
    /\ IsPdfName(fn)
    /\ tmpfiles' = tmpfiles \cup {r}
    /\ job' = [job EXCEPT ![r].pc = "Received", ![r].filename = fn]
    /\ UNCHANGED <<resp, dirs, files, loop, vlm_config, pipeline, writer>>

\* app.py:145-148: the bytes are written and the temporary file is closed;
\* from here the handler keeps the event loop until it returns.
StageInput(r) ==
    /\ LoopFree
    /\ job[r].pc = "Received"
    /\ loop' = r
    /\ job' = [job EXCEPT ![r].pc = "InputStaged"]
    /\ UNCHANGED <<resp, dirs, files, tmpfiles, vlm_config, pipeline, writer>>

\* app.py:150-153: the identifier is generated and its directory is made
\* (mkdir(parents=True, exist_ok=True)); mkdir raises when the file system
\* refuses.
EnsureDir(r, ts) ==
    /\ Running(r)
    /\ job[r].pc = "InputStaged"
    /\ LET id == DocumentId(job[r].filename, ts) IN
         \/ /\ dirs' = dirs \cup {id}
            /\ job' = [job EXCEPT ![r].pc = "Ensured", ![r].ts = ts, ![r].document_id = id]
         \/ /\ dirs' = dirs
            /\ job' = [job EXCEPT ![r].pc = "Except", ![r].ts = ts, ![r].document_id = id]
    /\ UNCHANGED <<resp, files, tmpfiles, loop, vlm_config, pipeline, writer>>

\* Mutant: no test of the global; every call constructs a pipeline.
get_pipeline_NoGuard(r) ==
    /\ Running(r)
    /\ job[r].pc = "Ensured"
    /\ \/ /\ vlm_config' = "Config"
          /\ pipeline' = pipeline + 1
          /\ job' = [job EXCEPT ![r].pc = "HasPipeline",
                                ![r].pipeline_instance = pipeline + 1]
       \/ /\ vlm_config' = "Config"
          /\ pipeline' = pipeline
          /\ job' = Raise(r)
       \/ /\ UNCHANGED <<vlm_config, pipeline>>
          /\ job' = Raise(r)
    /\ UNCHANGED <<resp, dirs, files, tmpfiles, loop, writer>>

\* app.py:56-67 and 158: get_pipeline() builds the configuration and the
\* pipeline when the global is None; either constructor may raise.
get_pipeline(r) ==
    /\ Running(r)
    /\ job[r].pc = "Ensured"
    /\ \/ /\ pipeline # 0
          /\ job' = [job EXCEPT ![r].pc = "HasPipeline",
                                ![r].pipeline_instance = pipeline]
          /\ UNCHANGED <<vlm_config, pipeline>>
       \/ /\ pipeline = 0
          /\ \/ /\ vlm_config' = "Config"
                /\ pipeline' = pipeline + 1
                /\ job' = [job EXCEPT ![r].pc = "HasPipeline",
                                      ![r].pipeline_instance = pipeline + 1]
             \/ /\ vlm_config' = "Config"
                /\ pipeline' = pipeline
                /\ job' = Raise(r)
             \/ /\ UNCHANGED <<vlm_config, pipeline>>
                /\ job' = Raise(r)
    /\ UNCHANGED <<resp, dirs, files, tmpfiles, loop, writer>>

\* The handler of run r calls a collaborator, which raises.
CallRaises(r, stage) ==
    [job EXCEPT ![r].pc = "Except", ![r].calls = Append(@, stage)]

\* The handler of run r calls a collaborator, which never returns: the call
\* is a plain synchronous call with no timeout around it, so the handler
\* stays in it and keeps the event loop.
CallHangs(r, stage) ==
    [job EXCEPT ![r].pc = "Blocked", ![r].calls = Append(@, stage)]

\* Mutant: a failed extraction is tried a second time.
Extract_Retries(r) ==
    /\ Running(r)
    /\ job[r].pc = "HasPipeline"
    /\ \/ \E d \in Documents :
            job' = [job EXCEPT ![r].pc = "Extracted", ![r].document = d,
                              ![r].calls = Append(@, "extract")]
       \/ /\ job[r].calls = <<>>
          /\ job' = [job EXCEPT ![r].calls = Append(@, "extract")]
       \/ /\ job[r].calls # <<>>
          /\ job' = CallRaises(r, "extract")
    /\ UNCHANGED <<resp, dirs, files, tmpfiles, loop, vlm_config, pipeline, writer>>

\* app.py:159-164: pipeline_instance.process_document(...) returns the raw
\* record, raises or does not return.
Extract(r) ==
    /\ Running(r)
    /\ job[r].pc = "HasPipeline"
    /\ \/ \E d \in Documents :
            job' = [job EXCEPT ![r].pc = "Extracted", ![r].document = d,
                              ![r].calls = Append(@, "extract")]
       \/ job' = CallRaises(r, "extract")
       \/ job' = CallHangs(r, "extract")
    /\ UNCHANGED <<resp, dirs, files, tmpfiles, loop, vlm_config, pipeline, writer>>

\* app.py:166-169: SubDocumentGrouper(0.80).group_document(document) returns
\* the enhanced record, raises or does not return.
Group(r) ==
    /\ Running(r)
    /\ job[r].pc = "Extracted"
    /\ \/ \E e \in EnhancedOf(job[r].document) :
            job' = [job EXCEPT ![r].pc = "Grouped", ![r].enhanced_doc = e,
                              ![r].calls = Append(@, "group")]
       \/ job' = CallRaises(r, "group")
       \/ job' = CallHangs(r, "group")
    /\ UNCHANGED <<resp, dirs, files, tmpfiles, loop, vlm_config, pipeline, writer>>

\* Mutant: a file that exists already keeps its content (nothing is
\* overwritten), and the run goes on.
SaveArtifact_KeepsExisting(r, kind, obj, next) ==
    LET id == job[r].document_id IN
    \/ /\ files' = IF FileExists(id, kind) THEN files
                   ELSE WriteFile(files, id, kind, json_dump(obj))
       /\ writer' = WriteFile(writer, id, kind, r)
       /\ job' = [job EXCEPT ![r].pc = next]
    \/ /\ UNCHANGED <<files, writer>>
       /\ job' = Raise(r)
    \/ /\ files' = WriteFile(files, id, kind, Truncated)
       /\ writer' = WriteFile(writer, id, kind, r)
       /\ job' = Raise(r)

\* open(path, 'w') and json.dump(obj, f, indent=2) for one artifact of run r:
\* the whole text is written, or open raises and the file is untouched, or
\* the dump raises and leaves the truncated file.
SaveArtifact(r, kind, obj, next) ==
    LET id == job[r].document_id IN
    \/ /\ files' = WriteFile(files, id, kind, json_dump(obj))
       /\ writer' = WriteFile(writer, id, kind, r)
       /\ job' = [job EXCEPT ![r].pc = next]
    \/ /\ UNCHANGED <<files, writer>>
       /\ job' = Raise(r)
    \/ /\ files' = WriteFile(files, id, kind, Truncated)
       /\ writer' = WriteFile(writer, id, kind, r)
       /\ job' = Raise(r)

\* Mutant: the enhanced record is written to the path of the index.
SaveEnhanced_WrongKind(r) ==
    /\ Running(r)
    /\ job[r].pc = "Grouped"
    /\ SaveArtifact(r, "index", job[r].enhanced_doc, "EnhancedSaved")
    /\ UNCHANGED <<resp, dirs, tmpfiles, loop, vlm_config, pipeline>>

\* app.py:171-174: the enhanced record is saved.
SaveEnhanced(r) ==
    /\ Running(r)
    /\ job[r].pc = "Grouped"
    /\ SaveArtifact(r, "enhanced", job[r].enhanced_doc, "EnhancedSaved")
    /\ UNCHANGED <<resp, dirs, tmpfiles, loop, vlm_config, pipeline>>

\* app.py:176-177: generate_hierarchical_index(enhanced_doc) returns the
\* index, raises or does not return.
BuildIndex(r) ==
    /\ Running(r)
    /\ job[r].pc = "EnhancedSaved"
    /\ \/ job' = [job EXCEPT ![r].pc = "Indexed",
                             ![r].index = generate_hierarchical_index(job[r].enhanced_doc),
                             ![r].calls = Append(@, "index")]
       \/ job' = CallRaises(r, "index")
       \/ job' = CallHangs(r, "index")
    /\ UNCHANGED <<resp, dirs, files, tmpfiles, loop, vlm_config, pipeline, writer>>

\* app.py:178-180: the index is saved.
SaveIndex(r) ==
    /\ Running(r)
    /\ job[r].pc = "Indexed"
    /\ SaveArtifact(r, "index", job[r].index, "Persisted")
    /\ UNCHANGED <<resp, dirs, tmpfiles, loop, vlm_config, pipeline>>

\* f"/results/{document_id}"
ResultsUrl(id) == <<"/", "r", "e", "s", "u", "l", "t", "s", "/">> \o id

\* Mutant: the sub-documents are counted in the raw record.
Summary_RawCount(r) ==
    [ op |-> "process",
      run |-> r,
      status |-> 200,
      document_id |-> job[r].document_id,
      processing_stats |-> job[r].document.processing_stats,
      sub_documents |-> Len(GetSubDocuments(job[r].document)),
      results_url |-> ResultsUrl(job[r].document_id),
      invoked |-> job[r].calls ]

\* The success summary (app.py:187-195).
Summary(r) ==
    [ op |-> "process",
      run |-> r,
      status |-> 200,
      document_id |-> job[r].document_id,
      processing_stats |-> job[r].document.processing_stats,
      sub_documents |-> Len(GetSubDocuments(job[r].enhanced_doc)),
      results_url |-> ResultsUrl(job[r].document_id),
      invoked |-> job[r].calls ]

\* app.py:182-195: the temporary file is unlinked and the summary returned.
\* Of the locals, the model keeps what the run produced.
Complete(r) ==
    /\ Running(r)
    /\ job[r].pc = "Persisted"
    /\ tmpfiles' = tmpfiles \ {r}
    /\ job' = [job EXCEPT ![r].pc = "Complete",
                          ![r].document = NoDoc,
                          ![r].index = NoDoc,
                          ![r].pipeline_instance = 0,
                          ![r].calls = <<>>]
    /\ resp' = Summary(r)
    /\ loop' = 0
    /\ UNCHANGED <<dirs, files, vlm_config, pipeline, writer>>

\* Mutant: the except branch removes the output directory of the failed run.
Fail_RemovesOutput(r) ==
    /\ Running(r)
    /\ job[r].pc = "Except"
    /\ job' = [job EXCEPT ![r] = DeadJob("Failed")]
    /\ resp' = [op |-> "process", run |-> r, status |-> 500,
                invoked |-> job[r].calls]
    /\ loop' = 0
    /\ dirs' = dirs \ {job[r].document_id}
    /\ files' = [p \in {q \in DOMAIN files : q[1] # job[r].document_id} |-> files[p]]
    /\ writer' = [p \in {q \in DOMAIN writer : q[1] # job[r].document_id} |-> writer[p]]
    /\ UNCHANGED <<tmpfiles, vlm_config, pipeline>>

\* app.py:197-199: any exception of the try block is logged and answered 500.
Fail(r) ==
    /\ Running(r)
    /\ job[r].pc = "Except"
    /\ job' = [job EXCEPT ![r] = DeadJob("Failed")]
    /\ resp' = [op |-> "process", run |-> r, status |-> 500,
                invoked |-> job[r].calls]
    /\ loop' = 0
    /\ UNCHANGED <<dirs, files, tmpfiles, vlm_config, pipeline, writer>>

\* The server writes the returned response to the client (uvicorn.run,
\* app.py:333-338), after which the loop takes the next request.
Send ==
    /\ resp # NoResponse
    /\ resp' = NoResponse
    /\ UNCHANGED <<dirs, files, tmpfiles, job, loop, vlm_config, pipeline, writer>>

process_pdf(r) ==
    \/ \E fn \in Filenames : RejectUpload(r, fn) \/ Receive(r, fn)
    \/ StageInput(r)
    \/ \E ts \in Timestamps : EnsureDir(r, ts)
    \/ get_pipeline(r)
    \/ Extract(r)
    \/ Group(r)
    \/ SaveEnhanced(r)
    \/ BuildIndex(r)
    \/ SaveIndex(r)
    \/ Complete(r)
    \/ Fail(r)

\* ------------------------------------------------------------------ /results
\* Mutant: the format is checked before the directory.
ResultsResponse_FormatFirst(document_id, format) ==
    IF format \notin {"enhanced", "index", "full"}
    THEN [op |-> "results", document_id |-> document_id, format |-> format,
          status |-> 400, detail |-> "Invalid format"]
    ELSE IF document_id \notin dirs
    THEN [op |-> "results", document_id |-> document_id, format |-> format,
          status |-> 404, detail |-> "Document not found"]
    ELSE IF ~FileExists(document_id, format)
    THEN [op |-> "results", document_id |-> document_id, format |-> format,
          status |-> 404, detail |-> "File not found"]
    ELSE [op |-> "results", document_id |-> document_id, format |-> format,
          status |-> 200, body |-> files[Path(document_id, format)]]

\* Mutant: an unknown format falls back to the enhanced file.
ResultsResponse_DefaultKind(document_id, format) ==
    LET kind == IF format \in {"index", "full"} THEN format ELSE "enhanced" IN
    IF document_id \notin dirs
    THEN [op |-> "results", document_id |-> document_id, format |-> format,
          status |-> 404, detail |-> "Document not found"]
    ELSE IF ~FileExists(document_id, kind)
    THEN [op |-> "results", document_id |-> document_id, format |-> format,
          status |-> 404, detail |-> "File not found"]
    ELSE [op |-> "results", document_id |-> document_id, format |-> format,
          status |-> 200, body |-> files[Path(document_id, kind)]]

\* Mutant: the paths of the enhanced and the index file are swapped.
ResultsResponse_WrongKind(document_id, format) ==
    LET kind == IF format = "enhanced" THEN "index"
                ELSE IF format = "index" THEN "enhanced" ELSE format IN
    IF document_id \notin dirs
    THEN [op |-> "results", document_id |-> document_id, format |-> format,
          status |-> 404, detail |-> "Document not found"]
    ELSE IF format \notin {"enhanced", "index", "full"}
    THEN [op |-> "results", document_id |-> document_id, format |-> format,
          status |-> 400, detail |-> "Invalid format"]
    ELSE IF ~FileExists(document_id, kind)
    THEN [op |-> "results", document_id |-> document_id, format |-> format,
          status |-> 404, detail |-> "File not found"]
    ELSE [op |-> "results", document_id |-> document_id, format |-> format,
          status |-> 200, body |-> files[Path(document_id, kind)]]

\* app.py:214-236: the response of GET /results/{document_id}?format=...
ResultsResponse(document_id, format) ==
    IF document_id \notin dirs
    THEN [op |-> "results", document_id |-> document_id, format |-> format,
          status |-> 404, detail |-> "Document not found"]
    ELSE IF format \notin {"enhanced", "index", "full"}
    THEN [op |-> "results", document_id |-> document_id, format |-> format,
          status |-> 400, detail |-> "Invalid format"]
    ELSE IF ~FileExists(document_id, format)
    THEN [op |-> "results", document_id |-> document_id, format |-> format,
          status |-> 404, detail |-> "File not found"]
    ELSE [op |-> "results", document_id |-> document_id, format |-> format,
          status |-> 200, body |-> files[Path(document_id, format)]]

\* Mutant: the lookup makes the directory of the identifier it is asked for.
get_results_MakesDir(document_id, format) ==
    /\ LoopFree
    /\ resp' = ResultsResponse(document_id, format)
    /\ dirs' = dirs \cup {document_id}
    /\ UNCHANGED <<files, tmpfiles, job, loop, vlm_config, pipeline, writer>>

\* app.py:202-236: GET /results/{document_id}
get_results(document_id, format) ==
    /\ LoopFree
    /\ resp' = ResultsResponse(document_id, format)
    /\ UNCHANGED <<dirs, files, tmpfiles, job, loop, vlm_config, pipeline, writer>>

\* ---------------------------------------------------------------- /documents
RECURSIVE ListDir_Abort(_)
\* Mutant: no try around the load, the first file that does not load ends
\* the enumeration.
ListDir_Abort(todo) ==
    IF todo = {} THEN <<>>
    ELSE LET d == CHOOSE x \in todo : TRUE
             rest == ListDir_Abort(todo \ {d})
         IN IF ~FileExists(d, "enhanced") THEN rest
            ELSE IF ~json_readable(files[Path(d, "enhanced")]) THEN <<>>
            ELSE LET data == json_load(files[Path(d, "enhanced")]) IN
                 << [ document_id |-> d,
                      total_pages |-> GetTotalPages(data),
                      sub_documents |-> Len(GetSubDocuments(data)),
                      results_url |-> ResultsUrl(d) ] >> \o rest

RECURSIVE ListDir(_)
\* app.py:301-315: one pass over the directories of OUTPUT_DIR; a directory
\* whose enhanced file is missing or does not load adds nothing.  iterdir
\* yields the directories in the file system's order.
ListDir(todo) ==
    IF todo = {} THEN <<>>
    ELSE LET d == CHOOSE x \in todo : TRUE
             rest == ListDir(todo \ {d})
         IN IF FileExists(d, "enhanced") /\ json_readable(files[Path(d, "enhanced")])
            THEN LET data == json_load(files[Path(d, "enhanced")]) IN
                 << [ document_id |-> d,
                      total_pages |-> GetTotalPages(data),
                      sub_documents |-> Len(GetSubDocuments(data)),
                      results_url |-> ResultsUrl(d) ] >> \o rest
            ELSE rest

\* app.py:298-321
list_documents ==
    /\ LoopFree
    /\ LET documents == ListDir(dirs) IN
         resp' = [ op |-> "documents",
                   status |-> 200,
                   total_documents |-> Len(documents),
                   documents |-> documents ]
    /\ UNCHANGED <<dirs, files, tmpfiles, job, loop, vlm_config, pipeline, writer>>

\* -------------------------------------------------------------------- /query
\* Matched elements in the collaborator's ranking order: the best match is
\* the element with the highest number.
Ranked(n) == [i \in 1..n |-> n + 1 - i]

\* What agent.query(question) can return: the four fields, of which a faulty
\* collaborator may leave some out.
QueryResults ==
    { [ answer_summary |-> "answer", reasoning |-> "why",
        matched_elements |-> Ranked(n), filter_stats |-> "fstats" ] : n \in 0..MaxMatches }
    \cup
    { [ answer_summary |-> "answer", reasoning |-> "why", filter_stats |-> "fstats" ],
      [ answer_summary |-> "answer", reasoning |-> "why", matched_elements |-> Ranked(2) ],
      [ matched_elements |-> Ranked(2), filter_stats |-> "fstats" ] }

\* result.get(key, '')
\* The question of a /query request.
Questions == {"q"}

\* result.get(key, '')
GetOr(result, key) == IF key \in DOMAIN result THEN result[key] ELSE ""

\* seq[:n]
Take(seq, n) == SubSeq(seq, 1, IF Len(seq) < n THEN Len(seq) ELSE n)

\* app.py:290-292: an exception of the try block is answered 500 with its
\* text; `invoked` lists the collaborator calls the handler had made.
QueryFailed(document_id, question, cause, invoked) ==
    [ op |-> "query", status |-> 500, document_id |-> document_id,
      question |-> question, detail |-> cause, invoked |-> invoked ]

\* Mutant: the fields are read with result.get(key, default), so that a
\* result without matched_elements or filter_stats is answered 200.
QueryResponse_DefaultsFields(document_id, question, result) ==
    LET matched == IF "matched_elements" \in DOMAIN result
                   THEN result.matched_elements ELSE <<>>
    IN [ op |-> "query", status |-> 200, document_id |-> document_id,
         question |-> question,
         answer |-> GetOr(result, "answer_summary"),
         reasoning |-> GetOr(result, "reasoning"),
         matched_elements |-> Take(matched, TopN),
         total_matches |-> Len(matched),
         filter_stats |-> GetOr(result, "filter_stats"),
         invoked |-> <<"HybridQueryAgent", "query">>,
         result |-> result ]

\* Mutant: total_matches counts the truncated list.
QueryResponse_CountsTruncated(document_id, question, result) ==
    LET invoked == <<"HybridQueryAgent", "query">> IN
    IF {"matched_elements", "filter_stats"} \subseteq DOMAIN result
    THEN [ op |-> "query", status |-> 200, document_id |-> document_id,
           question |-> question,
           answer |-> GetOr(result, "answer_summary"),
           reasoning |-> GetOr(result, "reasoning"),
           matched_elements |-> Take(result.matched_elements, TopN),
           total_matches |-> Len(Take(result.matched_elements, TopN)),
           filter_stats |-> result.filter_stats,
           invoked |-> invoked,
           result |-> result ]
    ELSE QueryFailed(document_id, question, "KeyError", invoked)

\* app.py:277-288: the response shaped from the collaborator's result; a
\* missing matched_elements or filter_stats is a KeyError.
QueryResponse(document_id, question, result) ==
    LET invoked == <<"HybridQueryAgent", "query">> IN
    IF {"matched_elements", "filter_stats"} \subseteq DOMAIN result
    THEN [ op |-> "query", status |-> 200, document_id |-> document_id,
           question |-> question,
           answer |-> GetOr(result, "answer_summary"),
           reasoning |-> GetOr(result, "reasoning"),
           matched_elements |-> Take(result.matched_elements, TopN),
           total_matches |-> Len(result.matched_elements),
           filter_stats |-> result.filter_stats,
           invoked |-> invoked,
           result |-> result ]
    ELSE QueryFailed(document_id, question, "KeyError", invoked)

\* app.py:250-292.  The agent is built from the path of the enhanced file
\* and loads it: a text that does not parse makes the constructor raise.
query_document(document_id, question) ==
    /\ LoopFree
    /\ IF ~FileExists(document_id, "enhanced")
       THEN /\ resp' = [ op |-> "query", status |-> 404, document_id |-> document_id,
                         question |-> question, detail |-> "Process a PDF first",
                         invoked |-> <<>> ]
            /\ UNCHANGED vlm_config
       ELSE \/ /\ vlm_config = "None"
               /\ UNCHANGED vlm_config
               /\ resp' = QueryFailed(document_id, question, "VLMConfig", <<>>)
            \/ /\ vlm_config' = "Config"
               /\ \/ resp' = QueryFailed(document_id, question, "HybridQueryAgent",
                                         <<"HybridQueryAgent">>)
                  \/ /\ json_readable(files[Path(document_id, "enhanced")])
                     /\ \/ resp' = QueryFailed(document_id, question, "query",
                                               <<"HybridQueryAgent", "query">>)
                        \/ \E result \in QueryResults :
                              resp' = QueryResponse(document_id, question, result)
    /\ UNCHANGED <<dirs, files, tmpfiles, job, loop, pipeline, writer>>

Next ==
    \/ \E r \in Runs : process_pdf(r)
    \/ \E id \in Ids, format \in Formats : get_results(id, format)
    \/ \E id \in Ids, question \in Questions : query_document(id, question)
    \/ list_documents
    \/ Send

Spec == Init /\ [][Next]_vars

\* ------------------------------------------------- identifier generation
\* The identifier alone (app.py:135-151), over a wider range of file names
\* and clock readings than the service model above affords.

\* PDF file names with equal and with different stems, with a directory part,
\* with a digit and with an underscore at the end of the stem.
IdFilenames ==
    { <<"a", ".", "p", "d", "f">>,
      <<"a", ".", "P", "D", "F">>,
      <<"d", "/", "a", ".", "p", "d", "f">>,
      <<"a", "1", ".", "p", "d", "f">>,
      <<"a", "_", "1", ".", "p", "d", "f">>,
      <<"b", ".", "p", "d", "f">> }

\* Readings of datetime.utcnow().timestamp(): a float, here whole seconds
\* and tenths of a second.
Clocks == [sec : {0, 1, 9, 10}, tenths : {0, 5}]

\* int(x) of a non-negative float: the fraction is dropped.
int(x) == x.sec

\* A request before its upload: the locals that decide the identifier.
IdJob == [pc |-> "Idle", filename |-> <<>>, now |-> [sec |-> 0, tenths |-> 0],
          document_id |-> NoId]

InitId ==
    /\ dirs = {}
    /\ files = [p \in {} |-> <<>>]
    /\ tmpfiles = {}
    /\ job = [r \in Runs |-> IdJob]
    /\ loop = 0
    /\ vlm_config = "None"
    /\ pipeline = 0
    /\ resp = NoResponse
    /\ writer = [p \in {} |-> 0]

\* app.py:135-148: a file with a PDF name is uploaded and staged.
UploadNamed(r, fn) ==
    /\ job[r].pc = "Idle"
    /\ IsPdfName(fn)
    /\ job' = [job EXCEPT ![r].pc = "InputStaged", ![r].filename = fn]
    /\ UNCHANGED <<dirs, files, tmpfiles, loop, vlm_config, pipeline, resp, writer>>

\* app.py:150-151: the clock is read and the identifier is generated.
GenerateId(r, now) ==
    /\ job[r].pc = "InputStaged"
    /\ job' = [job EXCEPT ![r].pc = "Identified",
                          ![r].now = now,
                          ![r].document_id = DocumentId(job[r].filename, int(now))]
    /\ UNCHANGED <<dirs, files, tmpfiles, loop, vlm_config, pipeline, resp, writer>>

NextId ==
    \/ \E r \in Runs, fn \in IdFilenames : UploadNamed(r, fn)
    \/ \E r \in Runs, now \in Clocks : GenerateId(r, now)

SpecId == InitId /\ [][NextId]_vars

\* ------------------------------------------------------------------- claims
Enhanced(id) == files[Path(id, "enhanced")]

\* The identifiers whose directory holds an enhanced file that json.load reads.
ReadableIds == {d \in dirs : FileExists(d, "enhanced") /\ Len(Enhanced(d)) = 1}

SubDocCount(e) == IF "sub_documents" \in DOMAIN e THEN Len(e.sub_documents) ELSE 0

ValidFormats == {"enhanced", "index", "full"}

\* C1: when a /process request that staged a temporary input file returns,
\* with the success summary or with 500, its temporary file no longer exists.
C1_TempFileRemoved ==
    (resp.op = "process" /\ resp.status \in {200, 500}) => resp.run \notin tmpfiles

\* C2 as stated: once a /process request completed with document_id d, every
\* later GET /results/d?format=enhanced returns the enhanced record of that
\* request, whatever other requests ran in between.
C2_ReturnsOwnRecord ==
    \A r \in Runs :
        ( /\ job[r].pc = "Complete"
          /\ resp.op = "results"
          /\ resp.format = "enhanced"
          /\ resp.document_id = job[r].document_id )
        => /\ resp.status = 200
           /\ resp.body = json_dump(job[r].enhanced_doc)

\* C2 amended: once a /process request completed with document_id d, every
\* later GET /results/d?format=enhanced succeeds and returns the text of the
\* enhanced file of d; that text is the record of this request as long as no
\* other request with the same identifier has opened the file for writing
\* since.
C2_ReturnsLastWritten ==
    \A r \in Runs :
        ( /\ job[r].pc = "Complete"
          /\ resp.op = "results"
          /\ resp.format = "enhanced"
          /\ resp.document_id = job[r].document_id )
        => /\ resp.status = 200
           /\ resp.body = Enhanced(resp.document_id)
           /\ writer[Path(resp.document_id, "enhanced")] = r
                => resp.body = json_dump(job[r].enhanced_doc)

\* Two completed requests share the identifier, and the record of the one
\* that wrote last is being returned.
C2_Witness ==
    /\ resp.op = "results"
    /\ resp.format = "enhanced"
    /\ resp.status = 200
    /\ \E r, q \in Runs :
         /\ r # q
         /\ job[r].pc = "Complete"
         /\ job[q].pc = "Complete"
         /\ job[r].document_id = resp.document_id
         /\ job[q].document_id = resp.document_id
         /\ job[r].enhanced_doc # job[q].enhanced_doc
         /\ writer[Path(resp.document_id, "enhanced")] = r
         /\ resp.body = json_dump(job[r].enhanced_doc)

\* C3: for an identifier without a directory in the store, GET /results (any
\* format) and POST /query answer 404, never 5xx, and /query invokes no
\* collaborator.
C3_UnknownIdNotFound ==
    ( /\ resp.op \in {"results", "query"}
      /\ resp.document_id \notin dirs )
    => /\ resp.status = 404
       /\ resp.op = "query" => resp.invoked = <<>>

\* An unknown identifier is asked for with an invalid format while the store
\* holds other documents.
C3_Witness ==
    /\ resp.op = "results"
    /\ resp.format = "xml"
    /\ resp.document_id \notin dirs
    /\ dirs # {}
    /\ resp.status = 404

\* C4: a successful /query returns the first min(5, n) of the collaborator's
\* n matched elements, in the collaborator's order, and total_matches = n.
C4_TopFiveOfRanking ==
    (resp.op = "query" /\ resp.status = 200) =>
        LET ranked == resp.result.matched_elements
            n == Len(ranked)
            k == IF n < 5 THEN n ELSE 5
        IN /\ resp.matched_elements = [i \in 1..k |-> ranked[i]]
           /\ resp.total_matches = n

\* The collaborator returned more than five matches.
C4_Witness ==
    /\ resp.op = "query"
    /\ resp.status = 200
    /\ Len(resp.result.matched_elements) > 5
    /\ Len(resp.matched_elements) = 5

\* C5: GET /documents always succeeds and lists exactly the identifiers whose
\* directory holds a present and readable enhanced file, each once;
\* total_documents is the number of listed documents.
C5_ListsReadableEntries ==
    resp.op = "documents" =>
        /\ resp.status = 200
        /\ {resp.documents[i].document_id : i \in 1..Len(resp.documents)} = ReadableIds
        /\ Len(resp.documents) = Cardinality(ReadableIds)
        /\ resp.total_documents = Len(resp.documents)

\* One directory holds an enhanced file that does not load, another one is
\* listed.
C5_Witness ==
    /\ resp.op = "documents"
    /\ resp.total_documents >= 1
    /\ \E d \in dirs : FileExists(d, "enhanced") /\ d \notin ReadableIds

\* C6: a /process request whose file name does not end in .pdf
\* (case-insensitive) is answered 400 and creates nothing: no directory, no
\* artifact, no temporary file, no pipeline.  Only the names a.pdf and a.PDF
\* of Filenames are accepted.
C6_NonPdfRejected ==
    [][ \A r \in Runs :
          (job[r].pc = "Idle" /\ job'[r].pc # "Idle") =>
             \/ /\ job'[r].pc = "Received"
                /\ job'[r].filename \in { <<"a", ".", "p", "d", "f">>,
                                          <<"a", ".", "P", "D", "F">> }
             \/ /\ job'[r].pc = "Rejected"
                /\ resp'.op = "process"
                /\ resp'.status = 400
                /\ UNCHANGED <<dirs, files, tmpfiles, vlm_config, pipeline, writer>> ]_vars

\* The name apdf has been rejected while the store holds a document.
C6_Witness ==
    /\ resp.op = "process"
    /\ resp.status = 400
    /\ resp.filename = <<"a", "p", "d", "f">>
    /\ dirs # {}

C8_InvalidFormatAlways400 ==
    (resp.op = "results" /\ resp.format \notin ValidFormats) => resp.status = 400

\* C8 amended: GET /results with a format other than enhanced, index, full
\* answers 400 whenever the directory of the identifier exists, whichever
\* artifacts it holds; without a directory the answer is 404.
C8_InvalidFormat400IfDirExists ==
    (resp.op = "results" /\ resp.format \notin ValidFormats) =>
        resp.status = IF resp.document_id \in dirs THEN 400 ELSE 404

\* An invalid format is asked for a document whose artifacts are stored.
C8_Witness ==
    /\ resp.op = "results"
    /\ resp.format = "xml"
    /\ FileExists(resp.document_id, "enhanced")
    /\ FileExists(resp.document_id, "index")
    /\ resp.status = 400

\* C9: when /process returns the success summary for d, the store holds the
\* enhanced and the index file of d, the enhanced file is the record of this
\* run, and sub_documents is the number of its sub-documents.
C9_SummaryMatchesStore ==
    (resp.op = "process" /\ resp.status = 200) =>
        LET d == resp.document_id
            e == job[resp.run].enhanced_doc
        IN /\ d = job[resp.run].document_id
           /\ FileExists(d, "enhanced")
           /\ FileExists(d, "index")
           /\ Enhanced(d) = <<e>>
           /\ resp.sub_documents = SubDocCount(e)

\* A summary reports a sub-document.
C9_Witness ==
    /\ resp.op = "process"
    /\ resp.status = 200
    /\ resp.sub_documents > 0

\* C10: no artifact is written before the job has reached Indexed: every
\* step that changes an artifact file is taken by a run whose index has been
\* built.
C10_WritesOnlyWhenIndexed ==
    [][ files' # files => (loop \in Runs /\ job[loop].pc = "Indexed") ]_vars

\* C11: for an identifier whose enhanced file exists, /query answers 200 only
\* when the collaborator returned a result with the required fields; when
\* the configuration, the agent constructor or the query raised, or the
\* result lacks matched_elements or filter_stats, the answer is 500 with the
\* cause, never 200 and never 404.
C11_CollaboratorErrorIs500 ==
    ( /\ resp.op = "query"
      /\ FileExists(resp.document_id, "enhanced") )
    => IF resp.status = 200
       THEN /\ resp.invoked = <<"HybridQueryAgent", "query">>
            /\ {"matched_elements", "filter_stats"} \subseteq DOMAIN resp.result
       ELSE /\ resp.status = 500
            /\ resp.detail \in {"VLMConfig", "HybridQueryAgent", "query", "KeyError"}
            /\ resp.detail = "VLMConfig" => resp.invoked = <<>>
            /\ resp.detail = "HybridQueryAgent" => resp.invoked = <<"HybridQueryAgent">>
            /\ resp.detail \in {"query", "KeyError"}
                 => resp.invoked = <<"HybridQueryAgent", "query">>

\* The collaborator returned a result without a required field.
C11_Witness ==
    /\ resp.op = "query"
    /\ FileExists(resp.document_id, "enhanced")
    /\ resp.status = 500
    /\ resp.detail = "KeyError"

\* C12: no step removes anything from the output store: every document
\* directory and every artifact file that exists before a step exists after
\* it (the content of a file may be replaced).
C12_StoreNeverShrinks ==
    [][ /\ dirs \subseteq dirs'
        /\ DOMAIN files \subseteq DOMAIN files' ]_vars

\* A run has failed and the artifact it wrote is still in the store.
C12_Witness ==
    \E r \in Runs : \E p \in DOMAIN files :
        /\ job[r].pc = "Failed"
        /\ writer[p] = r
        /\ p[1] \in dirs

\* C13: whenever no /process run for identifier d is in progress and both
\* the enhanced file and the index file exist under d, the index file holds
\* the index built from the record in the enhanced file.
InProgress(id) == loop \in Runs /\ job[loop].document_id = id

C13_IndexMatchesEnhanced ==
    \A id \in Ids :
        ( /\ ~InProgress(id)
          /\ FileExists(id, "enhanced")
          /\ FileExists(id, "index") )
        => /\ json_readable(files[Path(id, "enhanced")])
           /\ files[Path(id, "index")] =
                json_dump(generate_hierarchical_index(json_load(Enhanced(id))))

\* C14: when two /process requests with the same identifier have both
\* completed, each artifact file of that identifier holds the payload of the
\* request that wrote it last; and a request that finds the directory or a
\* file of its identifier already present can still create the directory and
\* write the file (mkdir with exist_ok, open with 'w').
Payload(r, kind) ==
    IF kind = "enhanced" THEN job[r].enhanced_doc
    ELSE generate_hierarchical_index(job[r].enhanced_doc)

SameIdCompleted(r1, r2) ==
    /\ r1 # r2
    /\ job[r1].pc = "Complete"
    /\ job[r2].pc = "Complete"
    /\ job[r1].document_id = job[r2].document_id

C14_LastWriterWins ==
    /\ \A r1, r2 \in Runs :
         SameIdCompleted(r1, r2) =>
           \A kind \in {"enhanced", "index"} :
             LET p == Path(job[r1].document_id, kind) IN
             /\ p \in DOMAIN files
             /\ job[writer[p]].pc = "Complete" =>
                  files[p] = json_dump(Payload(writer[p], kind))
    /\ \A r \in Runs :
         /\ (Running(r) /\ job[r].pc = "InputStaged") =>
              \A ts \in Timestamps :
                ENABLED (EnsureDir(r, ts) /\ job'[r].pc = "Ensured")
         /\ (Running(r) /\ job[r].pc = "Grouped") =>
              ENABLED (SaveEnhanced(r) /\ job'[r].pc = "EnhancedSaved")
         /\ (Running(r) /\ job[r].pc = "Indexed") =>
              ENABLED (SaveIndex(r) /\ job'[r].pc = "Persisted")

\* Two completed requests share an identifier and gave different records:
\* the store holds those of the later one.
C14_Witness ==
    \E r1, r2 \in Runs :
        /\ SameIdCompleted(r1, r2)
        /\ job[r1].enhanced_doc # job[r2].enhanced_doc
        /\ writer[Path(job[r1].document_id, "enhanced")] = r2
        /\ writer[Path(job[r1].document_id, "index")] = r2

\* C15: however the /process requests interleave, at most one pipeline
\* instance is ever constructed, and every request that has obtained its
\* pipeline_instance holds that one instance, which is the global.
C15_PipelineConstructedOnce ==
    /\ pipeline \in {0, 1}
    /\ \A r \in Runs :
         job[r].pc \in {"HasPipeline", "Extracted", "Grouped", "EnhancedSaved",
                        "Indexed", "Persisted"}
           => job[r].pipeline_instance = 1 /\ pipeline = 1

\* A second request has obtained the instance that an earlier, completed
\* request constructed.
C15_Witness ==
    \E r1, r2 \in Runs :
        /\ r1 # r2
        /\ job[r1].pc = "Complete"
        /\ job[r2].pc = "HasPipeline"
        /\ job[r2].pipeline_instance = 1

\* C16: in one /process request the collaborators are called at most once
\* each, in the order extraction, grouping, index building; after the first
\* exception (of a collaborator or of the store) the request calls nothing
\* more and its only step is the 500 answer; a 200 answer has made exactly
\* the three calls.
Stages == <<"extract", "group", "index">>

IsPrefix(s, t) == Len(s) =< Len(t) /\ s = SubSeq(t, 1, Len(s))

C16_EachStageOnceInOrder ==
    [][ /\ \A r \in Runs :
             /\ IsPrefix(job'[r].calls, Stages)
             /\ job[r].pc = "Except" =>
                  \/ job'[r] = job[r]
                  \/ /\ job'[r].pc = "Failed"
                     /\ resp'.op = "process" /\ resp'.run = r
                     /\ resp'.status = 500
                     /\ resp'.invoked = job[r].calls
        /\ (resp'.op = "process" /\ resp'.status # 400) =>
             /\ IsPrefix(resp'.invoked, Stages)
             /\ resp'.status = 200 => resp'.invoked = Stages
      ]_vars

\* The grouping raised after a successful extraction: the answer is 500 and
\* the index builder was not called.
C16_Witness ==
    /\ resp.op = "process"
    /\ resp.status = 500
    /\ resp.invoked = <<"extract", "group">>

\* C17: a step of GET /results, POST /query or GET /documents leaves the
\* directories, the artifact files and the temporary files as they were, and
\* the same /results request made again right after it gets the same answer.
ReadOps == {"results", "query", "documents"}

C17_ReadsLeaveStoreUnchanged ==
    [][ (resp' # resp /\ resp'.op \in ReadOps) =>
          /\ UNCHANGED <<dirs, files, tmpfiles, writer>>
          /\ \A id \in Ids, format \in Formats :
               ( /\ resp'.op = "results"
                 /\ resp'.document_id = id
                 /\ resp'.format = format )
               => resp' = ResultsResponse(id, format)'
      ]_vars

\* A stored artifact has been served while another request was waiting for
\* its upload.
C17_Witness ==
    /\ resp.op = "results"
    /\ resp.status = 200
    /\ resp.body = files[Path(resp.document_id, resp.format)]
    /\ \E r \in Runs : job[r].pc = "Received"

\* C18: a /process request that has started its synchronous block can always
\* take a further step until it has answered, also when a collaborator call
\* does not return (a timeout would then end the call with a failure); so
\* no request stays in progress for ever.
C18_InProgressCanProceed ==
    \A r \in Runs : Running(r) => ENABLED process_pdf(r)

\* C19: two /process requests have the same identifier exactly when the
\* stems of their file names are equal and their clock readings lie in the
\* same second; the identifier is decided by the stem and that second alone.
C19_SameIdIffSameStemAndSecond ==
    \A r1, r2 \in Runs :
        (job[r1].pc = "Identified" /\ job[r2].pc = "Identified") =>
            ( job[r1].document_id = job[r2].document_id
              <=> /\ Stem(job[r1].filename) = Stem(job[r2].filename)
                  /\ job[r1].now.sec = job[r2].now.sec )

\* Two uploads with different file names of one stem, read at different
\* instants of one second, have one identifier.
C19_Witness ==
    \E r1, r2 \in Runs :
        /\ job[r1].pc = "Identified" /\ job[r2].pc = "Identified"
        /\ job[r1].filename # job[r2].filename
        /\ job[r1].now # job[r2].now
        /\ job[r1].document_id = job[r2].document_id

====
